---- MODULE Spec2Model ----
(***************************************************************************)
(* Model of bookstore_manger.py: the sqlite store (member, book, sale),    *)
(* the shared connection with its uncommitted changes, and the menu-driven *)
(* operations add_sale, show_sales, update_sale and delete_sale.           *)
(*                                                                         *)
(* Text typed by the operator is a sequence of one-character strings, so   *)
(* that len(), count(), strip() and int() are computed as Python does.     *)
(***************************************************************************)
EXTENDS Integers, Sequences, FiniteSets, TLC

VARIABLES
    book,   \* committed book table: bid -> [bprice, bstock]
    sale,   \* committed sale table: set of rows
    seq,    \* committed sqlite_sequence value of table sale (AUTOINCREMENT)
    conn,   \* what the shared connection sees: committed data plus its
            \* own uncommitted changes, [book, sale, seq]
    pc,     \* "menu" while the main loop runs, "exited" after break,
            \* "crashed" after an exception nothing caught
    last    \* the last operation: inputs read, messages printed/returned

vars == <<book, sale, seq, conn, pc, last>>

----------------------------------------------------------------------------
(* Bounds of the model                                                     *)

\* largest sale identifier the model lets AUTOINCREMENT hand out
MaxSid == 5

----------------------------------------------------------------------------
(* Text                                                                    *)

Digits == {"0", "1", "2", "3", "4", "5", "6", "7", "8", "9"}

IsDigit(c) == c \in Digits

DigitVal(c) ==
    CASE c = "0" -> 0 [] c = "1" -> 1 [] c = "2" -> 2 [] c = "3" -> 3
      [] c = "4" -> 4 [] c = "5" -> 5 [] c = "6" -> 6 [] c = "7" -> 7
      [] c = "8" -> 8 [] c = "9" -> 9

\* str.count(c)
count(s, c) == Cardinality({i \in 1..Len(s) : s[i] = c})

RECURSIVE lstrip(_)
lstrip(s) == IF s # <<>> /\ Head(s) = " " THEN lstrip(Tail(s)) ELSE s

RECURSIVE rstrip(_)
rstrip(s) ==
    IF s # <<>> /\ s[Len(s)] = " " THEN rstrip(SubSeq(s, 1, Len(s) - 1)) ELSE s

\* faulty variant of strip: blanks are kept
strip_Nothing(s) == s

\* str.strip()
strip(s) == rstrip(lstrip(s))

\* the number written by the first n digits of s
RECURSIVE DigitsValue(_, _)
DigitsValue(s, n) ==
    IF n = 0 THEN 0 ELSE 10 * DigitsValue(s, n - 1) + DigitVal(s[n])

\* the digits of s without its leading zeros
RECURSIVE Significant(_)
Significant(s) ==
    IF Len(s) > 1 /\ Head(s) = "0" THEN Significant(Tail(s)) ELSE s

\* a > b for two digit texts of the same length
RECURSIVE DigitsGreater(_, _)
DigitsGreater(a, b) ==
    /\ a # <<>>
    /\ \/ DigitVal(Head(a)) > DigitVal(Head(b))
       \/ Head(a) = Head(b) /\ DigitsGreater(Tail(a), Tail(b))

\* 2^63 - 1 and 2^63, the largest magnitudes of an sqlite INTEGER
Int64Max == <<"9", "2", "2", "3", "3", "7", "2", "0", "3", "6",
              "8", "5", "4", "7", "7", "5", "8", "0", "7">>
Int64Min == <<"9", "2", "2", "3", "3", "7", "2", "0", "3", "6",
              "8", "5", "4", "7", "7", "5", "8", "0", "8">>

\* whether the number written by the digits sig (no leading zeros), negative
\* or not, fits the 64 bits of an sqlite INTEGER; binding a Python int that
\* does not raises OverflowError
FitsInt64(sig, negative) ==
    \/ Len(sig) < Len(Int64Max)
    \/ /\ Len(sig) = Len(Int64Max)
       /\ ~DigitsGreater(sig, IF negative THEN Int64Min ELSE Int64Max)

\* int(text): surrounding blanks are dropped, one sign is allowed, the rest
\* must be a non-empty run of digits; ok = FALSE stands for ValueError.
\* A Python int has no width. val is the number itself up to 9 digits; a
\* longer number is kept as +-10^9, which compares with the numbers of the
\* store as the number itself does, and int64 tells whether sqlite can
\* store it.
int(s) ==
    LET t        == strip(s)
        signed   == t # <<>> /\ Head(t) \in {"-", "+"}
        negative == signed /\ Head(t) = "-"
        body     == IF signed THEN Tail(t) ELSE t
        ok       == body # <<>> /\ \A i \in 1..Len(body) : IsDigit(body[i])
        sig      == Significant(body)
        abs      == IF Len(sig) > 9 THEN 1000000000
                    ELSE DigitsValue(sig, Len(sig))
    IN  [ok    |-> ok,
         val   |-> IF ~ok THEN 0 ELSE IF negative THEN 0 - abs ELSE abs,
         int64 |-> ok /\ FitsInt64(sig, negative)]

----------------------------------------------------------------------------
(* Seed data of initialize_db                                              *)

member ==
    [m \in {"M001", "M002", "M003"} |->
        CASE m = "M001" -> "Alice"
          [] m = "M002" -> "Bob"
          [] m = "M003" -> "Cathy"]

SeedBook ==
    [b \in {"B001", "B002", "B003"} |->
        CASE b = "B001" -> [bprice |-> 600,  bstock |-> 50]
          [] b = "B002" -> [bprice |-> 800,  bstock |-> 30]
          [] b = "B003" -> [bprice |-> 1200, bstock |-> 20]]

Date(d1, d2) == <<"2", "0", "2", "4", "-", "0", "1", "-", d1, d2>>

SeedSale ==
    << [sdate |-> Date("1", "5"), mid |-> "M001", bid |-> "B001",
        sqty |-> 2, sdiscount |-> 100, stotal |-> 1100],
       [sdate |-> Date("1", "6"), mid |-> "M002", bid |-> "B002",
        sqty |-> 1, sdiscount |-> 50, stotal |-> 750],
       [sdate |-> Date("1", "7"), mid |-> "M001", bid |-> "B003",
        sqty |-> 3, sdiscount |-> 200, stotal |-> 3400],
       [sdate |-> Date("1", "8"), mid |-> "M003", bid |-> "B001",
        sqty |-> 1, sdiscount |-> 0, stotal |-> 600] >>

----------------------------------------------------------------------------
(* The store                                                               *)

\* a database file on which no table has been created yet
EmptyDb == [book |-> [b \in {} |-> 0], sale |-> {}, seq |-> 0]

\* faulty variant of InsertSale: the identifier is one more than the largest
\* in the table now, as a key without AUTOINCREMENT gets it
InsertSale_MaxPlusOne(db, fields) ==
    LET top == IF db.sale = {} THEN 0
               ELSE CHOOSE n \in {r.sid : r \in db.sale} :
                        \A r \in db.sale : r.sid <= n
    IN  [db EXCEPT !.sale = @ \cup {[sid       |-> top + 1,
                                     sdate     |-> fields.sdate,
                                     mid       |-> fields.mid,
                                     bid       |-> fields.bid,
                                     sqty      |-> fields.sqty,
                                     sdiscount |-> fields.sdiscount,
                                     stotal    |-> fields.stotal]},
                     !.seq  = top + 1]

\* INSERT INTO sale (...) VALUES (...): AUTOINCREMENT gives the row one more
\* than the largest identifier the table ever held
InsertSale(db, fields) ==
    [db EXCEPT !.sale = @ \cup {[sid       |-> db.seq + 1,
                                 sdate     |-> fields.sdate,
                                 mid       |-> fields.mid,
                                 bid       |-> fields.bid,
                                 sqty      |-> fields.sqty,
                                 sdiscount |-> fields.sdiscount,
                                 stotal    |-> fields.stotal]},
                 !.seq  = @ + 1]

\* INSERT OR IGNORE INTO book: a bid already present keeps its row
InsertOrIgnoreBooks(db) ==
    [db EXCEPT !.book = [b \in DOMAIN db.book \cup DOMAIN SeedBook |->
                            IF b \in DOMAIN db.book THEN db.book[b]
                            ELSE SeedBook[b]]]

\* INSERT INTO sale ... SELECT <seed i> WHERE NOT EXISTS (... WHERE sid = i)
RECURSIVE InsertSeedSales(_, _)
InsertSeedSales(db, i) ==
    IF i > Len(SeedSale) THEN db
    ELSE InsertSeedSales(
            IF \E r \in db.sale : r.sid = i THEN db
            ELSE InsertSale(db, SeedSale[i]),
            i + 1)

initialize_db(db) == InsertSeedSales(InsertOrIgnoreBooks(db), 1)

Committed == [book |-> book, sale |-> sale, seq |-> seq]


\* conn.commit(): the connection's changes become the committed data
commit(db) ==
    /\ book' = db.book
    /\ sale' = db.sale
    /\ seq' = db.seq
    /\ conn' = db

\* faulty variant of rollback: the uncommitted changes stay on the connection
rollback_Missing(committed, pending) == pending

\* conn.rollback(): the connection sees the committed data again
rollback(committed, pending) == committed

\* UPDATE book SET bstock = bstock - ? WHERE bid = ?
DecrementStock(db, bid, sqty) ==
    [db EXCEPT !.book[bid].bstock = @ - sqty]

\* faulty variant of UpdateSale: the discount is overwritten, the total is not
UpdateSale_DiscountOnly(db, sid, sdiscount, stotal) ==
    [db EXCEPT !.sale = {IF r.sid = sid
                         THEN [r EXCEPT !.sdiscount = sdiscount]
                         ELSE r : r \in @}]

\* UPDATE sale SET sdiscount = ?, stotal = ? WHERE sid = ?
UpdateSale(db, sid, sdiscount, stotal) ==
    [db EXCEPT !.sale = {IF r.sid = sid
                         THEN [r EXCEPT !.sdiscount = sdiscount,
                                        !.stotal = stotal]
                         ELSE r : r \in @}]

\* faulty variant of DeleteSale: the quantity of the deleted sale goes back
\* to the stock of its book
DeleteSale_RestoreStock(db, sid) ==
    LET r == CHOOSE x \in db.sale : x.sid = sid
    IN  [db EXCEPT !.sale = {x \in @ : x.sid # sid},
                   !.book[r.bid].bstock = @ + r.sqty]

\* DELETE FROM sale WHERE sid = ?
DeleteSale(db, sid) ==
    [db EXCEPT !.sale = {r \in @ : r.sid # sid}]

\* faulty variant of OrderBySid: descending
RECURSIVE OrderBySid_Descending(_)
OrderBySid_Descending(S) ==
    IF S = {} THEN <<>>
    ELSE LET r == CHOOSE x \in S : \A y \in S : x.sid >= y.sid
         IN  <<r>> \o OrderBySid_Descending(S \ {r})

\* the rows of S in ascending order of sid (ORDER BY s.sid)
RECURSIVE OrderBySid(_)
OrderBySid(S) ==
    IF S = {} THEN <<>>
    ELSE LET r == CHOOSE x \in S : \A y \in S : x.sid <= y.sid
         IN  <<r>> \o OrderBySid(S \ {r})

\* SELECT s.sid, m.mname, s.sdate FROM sale s JOIN member m ON s.mid = m.mid
\* ORDER BY s.sid
Listing(db) ==
    LET joined == {r \in db.sale : r.mid \in DOMAIN member}
        rows   == OrderBySid(joined)
    IN  [i \in 1..Len(rows) |-> [sid   |-> rows[i].sid,
                                 mname |-> member[rows[i].mid],
                                 sdate |-> rows[i].sdate]]

\* the SELECT of show_sales (the title column is left out: it is only
\* printed)
Report(db) ==
    LET joined == {r \in db.sale : /\ r.mid \in DOMAIN member
                                   /\ r.bid \in DOMAIN db.book}
        rows   == OrderBySid(joined)
    IN  [i \in 1..Len(rows) |-> [sid       |-> rows[i].sid,
                                 sdate     |-> rows[i].sdate,
                                 mname     |-> member[rows[i].mid],
                                 bprice    |-> db.book[rows[i].bid].bprice,
                                 sqty      |-> rows[i].sqty,
                                 sdiscount |-> rows[i].sdiscount,
                                 stotal    |-> rows[i].stotal]]

----------------------------------------------------------------------------
(* Messages (the source prints them in Chinese)                            *)

MsgNone              == ""
MsgDateFormat        == "error: date format should be YYYY-MM-DD"
MsgQtyNotPositive    == "error: quantity must be a positive integer"
MsgQtyNotInt         == "error: quantity must be an integer"
MsgDiscNegative      == "error: discount must not be negative"
MsgDiscNotInt        == "error: discount must be an integer"
MsgMemberMissing     == "error: member id does not exist"
MsgBookMissing       == "error: book id does not exist"
MsgStockInsufficient == "error: insufficient stock (current stock: val)"
MsgAdded             == "sale added (total: val)"
MsgRolledBack        == "error: adding the sale failed, transaction rolled back"
MsgSystemError       == "system error: e"
MsgNoUpdatable       == "no sale to update"
MsgNoDeletable       == "no sale to delete"
MsgInvalidOption     == "error: enter a valid option"
MsgInvalidNumber     == "error: enter a valid number"
MsgUpdated           == "sale sid updated (total: val)"
MsgDeleted           == "sale sid deleted"
MsgInvalidMenu       == "enter a valid option (1-5)"
MsgDbError           == "error: database error - e"
MsgBye               == "program ends"
MsgTraceback         == "Traceback (most recent call last): e"

\* what an operation leaves in last: the inputs it read, its boolean result
\* (add_sale returns it; for the others: whether the change was committed),
\* the message, the number, identifier or rows the message shows, and the
\* statement that raised sqlite3.Error, if one did
Outcome(op, inputs, ok, msg, val, sid) ==
    [op |-> op, inputs |-> inputs, ok |-> ok, msg |-> msg, val |-> val,
     sid |-> sid, rows |-> <<>>, fault |-> "none"]

Failure(op, inputs, msg, fault) ==
    [Outcome(op, inputs, FALSE, msg, 0, 0) EXCEPT !.fault = fault]


----------------------------------------------------------------------------
(* What the operator may type, and where the store may raise sqlite3.Error *)

\* 10^19: an integer for Python, too large for an sqlite INTEGER
WideText == <<"1", "0", "0", "0", "0", "0", "0", "0", "0", "0",
              "0", "0", "0", "0", "0", "0", "0", "0", "0", "0">>

GoodDate == Date("0", "1")
Dates == {GoodDate,
          <<"2", "0", "2", "4", "/", "0", "1", "/", "0", "1">>,
          <<"2", "4", "-", "1", "-", "1">>}
Mids == {"M001", "M404"}
Bids == {"B003", "B404"}
QtyTexts == {<<"x">>, <<"0">>, <<"2", "0">>, <<"2", "1">>}
DiscTexts == {<<"x">>, <<"-", "5">>, <<"9", "0", "0", "0">>,
              <<"3", "0", "0", "0", "0">>, WideText}
Choices == {<<>>, <<" ">>, <<"x">>, <<"0">>, <<"1">>, <<"9">>}
NewDiscTexts == {<<"x">>, <<"-", "5">>, <<"7", "0">>, WideText}

\* the statements of add_sale's inner try
AddFaults == {"insert", "update", "commit"}
\* a failed COMMIT leaves the transaction open or rolls it back: sqlite does
\* either, depending on the error
CommitFaults == {"commit_open", "commit_rolled_back"}

----------------------------------------------------------------------------
(* add_sale                                                                *)

\* faulty variant of BadDate: and for or
BadDate_And(sdate) == Len(sdate) # 10 /\ count(sdate, "-") # 2

\* len(sdate) != 10 or sdate.count('-') != 2
BadDate(sdate) == Len(sdate) # 10 \/ count(sdate, "-") # 2

\* faulty variant of InsufficientStock: off by one
InsufficientStock_OffByOne(bstock, sqty) == bstock + 1 < sqty

\* faulty variant of InsufficientStock: the operands swapped
InsufficientStock_Swapped(bstock, sqty) == sqty < bstock

\* bstock < sqty
InsufficientStock(bstock, sqty) == bstock < sqty

\* stotal = (bprice * sqty) - sdiscount
Total(bprice, sqty, sdiscount) == (bprice * sqty) - sdiscount

\* return False, message: nothing was written
AddSaleFails(inputs, msg, val) ==
    /\ last' = Outcome("add_sale", inputs, FALSE, msg, val, 0)
    /\ UNCHANGED <<book, sale, seq, conn, pc>>

\* the connection's data when the statement named by fault raises
AddSalePending(fault, before, inserted, updated) ==
    CASE fault = "insert" -> before
      [] fault = "update" -> inserted
      [] fault = "commit" -> updated

\* lines 110-127: the stock check, the two writes and the commit; a
\* sqlite3.Error in the inner try is answered by conn.rollback(). The
\* OverflowError of an INSERT whose discount sqlite cannot store is no
\* sqlite3.Error: the outer except answers it, and nothing was written
AddSaleWrite(sdate, mid, bid, sqty, sdiscount, inputs) ==
    LET bprice   == conn.book[bid].bprice
        bstock   == conn.book[bid].bstock
        stotal   == Total(bprice, sqty, sdiscount)
        inserted == InsertSale(conn, [sdate |-> sdate, mid |-> mid,
                                      bid |-> bid, sqty |-> sqty,
                                      sdiscount |-> sdiscount,
                                      stotal |-> stotal])
        updated  == DecrementStock(inserted, bid, sqty)
    IN  IF InsufficientStock(bstock, sqty)
        THEN AddSaleFails(inputs, MsgStockInsufficient, bstock)
        ELSE IF ~int(inputs[5]).int64
        THEN /\ last' = Failure("add_sale", inputs, MsgSystemError, "overflow")
             /\ UNCHANGED <<book, sale, seq, conn, pc>>
        ELSE \/ \E fault \in AddFaults :
                  /\ conn' = rollback(Committed,
                               AddSalePending(fault, conn, inserted, updated))
                  /\ last' = Failure("add_sale", inputs, MsgRolledBack, fault)
                  /\ UNCHANGED <<book, sale, seq, pc>>
             \/ /\ updated.seq <= MaxSid
                /\ commit(updated)
                /\ last' = Outcome("add_sale", inputs, TRUE, MsgAdded, stotal,
                                   inserted.seq)
                /\ UNCHANGED pc

\* faulty variant of AddSaleStore: the member is not looked up
AddSaleStore_NoMemberCheck(sdate, mid, bid, sqty, sdiscount, inputs) ==
    \/ /\ last' = Failure("add_sale", inputs, MsgSystemError, "select")
       /\ UNCHANGED <<book, sale, seq, conn, pc>>
    \/ IF bid \notin DOMAIN conn.book
       THEN AddSaleFails(inputs, MsgBookMissing, 0)
       ELSE AddSaleWrite(sdate, mid, bid, sqty, sdiscount, inputs)

\* faulty variant of AddSaleStore: the book is looked up before the member
AddSaleStore_BookFirst(sdate, mid, bid, sqty, sdiscount, inputs) ==
    \/ /\ last' = Failure("add_sale", inputs, MsgSystemError, "select")
       /\ UNCHANGED <<book, sale, seq, conn, pc>>
    \/ IF bid \notin DOMAIN conn.book
       THEN AddSaleFails(inputs, MsgBookMissing, 0)
       ELSE IF mid \notin DOMAIN member
            THEN AddSaleFails(inputs, MsgMemberMissing, 0)
            ELSE AddSaleWrite(sdate, mid, bid, sqty, sdiscount, inputs)

\* lines 99-108: the two lookups; a sqlite3.Error raised by a SELECT is
\* caught by the outer except
AddSaleStore(sdate, mid, bid, sqty, sdiscount, inputs) ==
    \/ /\ last' = Failure("add_sale", inputs, MsgSystemError, "select")
       /\ UNCHANGED <<book, sale, seq, conn, pc>>
    \/ IF mid \notin DOMAIN member
       THEN AddSaleFails(inputs, MsgMemberMissing, 0)
       ELSE \/ /\ last' = Failure("add_sale", inputs, MsgSystemError,
                                     "select")
               /\ UNCHANGED <<book, sale, seq, conn, pc>>
            \/ IF bid \notin DOMAIN conn.book
               THEN AddSaleFails(inputs, MsgBookMissing, 0)
               ELSE AddSaleWrite(sdate, mid, bid, sqty, sdiscount, inputs)

\* lines 78-97: the inputs are read and checked one after the other
add_sale ==
    \E sdate \in Dates :
      IF BadDate(sdate) THEN AddSaleFails(<<sdate>>, MsgDateFormat, 0)
      ELSE
      \E mid \in Mids, bid \in Bids, qtyText \in QtyTexts :
        LET sqty == int(qtyText)
            four == <<sdate, mid, bid, qtyText>>
        IN  IF ~sqty.ok THEN AddSaleFails(four, MsgQtyNotInt, 0)
            ELSE IF sqty.val <= 0 THEN AddSaleFails(four, MsgQtyNotPositive, 0)
            ELSE
            \E discText \in DiscTexts :
              LET sdiscount == int(discText)
                  five == <<sdate, mid, bid, qtyText, discText>>
              IN  IF ~sdiscount.ok THEN AddSaleFails(five, MsgDiscNotInt, 0)
                  ELSE IF sdiscount.val < 0
                       THEN AddSaleFails(five, MsgDiscNegative, 0)
                  ELSE AddSaleStore(sdate, mid, bid, sqty.val,
                                    sdiscount.val, five)

----------------------------------------------------------------------------
(* update_sale and delete_sale                                             *)

\* 0 <= index < len(sales)
InRange(index, sales) == 0 <= index /\ index < Len(sales)

\* an sqlite3.Error that leaves the function: caught by the main loop, which
\* prints it and continues; nothing is rolled back
Raised(op, inputs) ==
    /\ last' = Failure(op, inputs, MsgDbError, "statement")
    /\ UNCHANGED <<book, sale, seq, conn, pc>>

\* conn.commit() raises: the main loop prints the error and continues, and
\* nothing rolls back. sqlite either keeps the transaction open, with the
\* change in it, or has rolled the transaction back itself
CommitRaised(op, inputs, fault, pending) ==
    /\ \/ /\ fault = "commit_open"
          /\ conn' = pending
       \/ /\ fault = "commit_rolled_back"
          /\ conn' = Committed
    /\ last' = Failure(op, inputs, MsgDbError, fault)
    /\ UNCHANGED <<book, sale, seq, pc>>

\* an exception that no except clause of the main loop names leaves the
\* loop: the interpreter prints the traceback and the process ends
Uncaught(op, inputs) ==
    /\ pc' = "crashed"
    /\ last' = Failure(op, inputs, MsgTraceback, "overflow")
    /\ UNCHANGED <<book, sale, seq, conn>>

\* lines 176-186 with a discount sqlite cannot store: the UPDATE raises
\* OverflowError when its parameters are bound, unless a SELECT before it
\* has raised sqlite3.Error
UpdateSaleOverflow(inputs) ==
    \/ Raised("update_sale", inputs)
    \/ Uncaught("update_sale", inputs)

\* a return without a write
Returned(op, inputs, msg) ==
    /\ last' = Outcome(op, inputs, FALSE, msg, 0, 0)
    /\ UNCHANGED <<book, sale, seq, conn, pc>>

\* faulty variant of UpdateSaleStore: the total is recomputed from the price the
\* sale was made at, as the stored row gives it
UpdateSaleStore_OldPrice(sid, sdiscount, inputs) ==
    LET row     == CHOOSE r \in conn.sale : r.sid = sid
        bprice  == (row.stotal + row.sdiscount) \div row.sqty
        stotal  == Total(bprice, row.sqty, sdiscount)
        updated == UpdateSale(conn, sid, sdiscount, stotal)
    IN  \/ Raised("update_sale", inputs)
        \/ \E fault \in CommitFaults :
              CommitRaised("update_sale", inputs, fault, updated)
        \/ /\ commit(updated)
           /\ last' = Outcome("update_sale", inputs, TRUE, MsgUpdated, stotal,
                              sid)
           /\ UNCHANGED pc

\* lines 176-188: recompute the total, write it, commit
UpdateSaleStore(sid, sdiscount, inputs) ==
    LET row     == CHOOSE r \in conn.sale : r.sid = sid
        bprice  == conn.book[row.bid].bprice
        stotal  == Total(bprice, row.sqty, sdiscount)
        updated == UpdateSale(conn, sid, sdiscount, stotal)
    IN  \/ Raised("update_sale", inputs)       \* a SELECT or the UPDATE raises
        \/ \E fault \in CommitFaults :
              CommitRaised("update_sale", inputs, fault, updated)
        \/ /\ commit(updated)
           /\ last' = Outcome("update_sale", inputs, TRUE, MsgUpdated, stotal,
                              sid)
           /\ UNCHANGED pc

update_sale ==
    LET sales == Listing(conn)
    IN  \/ Raised("update_sale", <<>>)   \* the listing SELECT raises
        \/ IF sales = <<>> THEN Returned("update_sale", <<>>, MsgNoUpdatable)
           ELSE
           \E choice \in Choices :
             LET c == int(choice)
                 one == <<choice>>
             IN  IF strip(choice) = <<>>
                 THEN Returned("update_sale", one, MsgNone)
                 ELSE IF ~c.ok
                      THEN Returned("update_sale", one, MsgInvalidNumber)
                 ELSE IF ~InRange(c.val - 1, sales)
                      THEN Returned("update_sale", one, MsgInvalidOption)
                 ELSE
                 \E discText \in NewDiscTexts :
                   LET sdiscount == int(discText)
                       two == <<choice, discText>>
                   IN  IF ~sdiscount.ok
                       THEN Returned("update_sale", two, MsgDiscNotInt)
                       ELSE IF sdiscount.val < 0
                            THEN Returned("update_sale", two, MsgDiscNegative)
                       ELSE IF ~sdiscount.int64
                            THEN UpdateSaleOverflow(two)
                       ELSE UpdateSaleStore(sales[(c.val - 1) + 1].sid,
                                            sdiscount.val, two)

\* lines 226-229: delete the row, commit
DeleteSaleStore(sid, inputs) ==
    LET deleted == DeleteSale(conn, sid)
    IN  \/ Raised("delete_sale", inputs)       \* the DELETE raises
        \/ \E fault \in CommitFaults :
              CommitRaised("delete_sale", inputs, fault, deleted)
        \/ /\ commit(deleted)
           /\ last' = Outcome("delete_sale", inputs, TRUE, MsgDeleted, 0, sid)
           /\ UNCHANGED pc

delete_sale ==
    LET sales == Listing(conn)
    IN  \/ Raised("delete_sale", <<>>)   \* the listing SELECT raises
        \/ IF sales = <<>> THEN Returned("delete_sale", <<>>, MsgNoDeletable)
           ELSE
           \E choice \in Choices :
             LET c == int(choice)
                 one == <<choice>>
             IN  IF strip(choice) = <<>>
                 THEN Returned("delete_sale", one, MsgNone)
                 ELSE IF ~c.ok
                      THEN Returned("delete_sale", one, MsgInvalidNumber)
                 ELSE IF ~InRange(c.val - 1, sales)
                      THEN Returned("delete_sale", one, MsgInvalidNumber)
                 ELSE DeleteSaleStore(sales[(c.val - 1) + 1].sid, one)

----------------------------------------------------------------------------
(* show_sales: a connection of its own, so it reads the committed data     *)

show_sales ==
    \/ Raised("show_sales", <<>>)        \* the SELECT raises
    \/ /\ last' = [Outcome("show_sales", <<>>, TRUE, MsgNone, 0, 0)
                      EXCEPT !.rows = Report(Committed)]
       /\ UNCHANGED <<book, sale, seq, conn, pc>>

----------------------------------------------------------------------------
(* The main program                                                        *)

Init ==
    LET db == initialize_db(EmptyDb)
    IN  /\ book = db.book
        /\ sale = db.sale
        /\ seq = db.seq
        /\ conn = db
        /\ pc = "menu"
        /\ last = Outcome("start", <<>>, TRUE, MsgNone, 0, 0)

\* choice '1'
AddSale ==
    /\ pc = "menu"
    /\ add_sale

\* choice '2'
ShowSales ==
    /\ pc = "menu"
    /\ show_sales

\* choice '3'
UpdateSaleChoice ==
    /\ pc = "menu"
    /\ update_sale

\* choice '4'
DeleteSaleChoice ==
    /\ pc = "menu"
    /\ delete_sale

\* choice '5' or a blank choice: break
Quit ==
    /\ pc = "menu"
    /\ pc' = "exited"
    /\ last' = Outcome("quit", <<>>, TRUE, MsgBye, 0, 0)
    /\ UNCHANGED <<book, sale, seq, conn>>

\* any other choice
InvalidChoice ==
    /\ pc = "menu"
    /\ last' = Outcome("menu", <<>>, FALSE, MsgInvalidMenu, 0, 0)
    /\ UNCHANGED <<book, sale, seq, conn, pc>>

\* the program is started again on the same database file: the old
\* connection is gone with whatever it had not committed
Start ==
    /\ pc \in {"exited", "crashed"}
    /\ initialize_db(Committed).seq <= MaxSid
    /\ commit(initialize_db(Committed))
    /\ pc' = "menu"
    /\ last' = Outcome("start", <<>>, TRUE, MsgNone, 0, 0)

\* one run of the program, from the first start to the break
Next ==
    \/ AddSale
    \/ ShowSales
    \/ UpdateSaleChoice
    \/ DeleteSaleChoice
    \/ Quit
    \/ InvalidChoice

Spec == Init /\ [][Next]_vars

\* runs of the program one after the other on the same database file
NextRestart ==
    \/ Next
    \/ Start

SpecRestart == Init /\ [][NextRestart]_vars

----------------------------------------------------------------------------
(* The catalog edited from outside the program                             *)

\* no operation of the program writes bprice; a price changes only when
\* somebody edits the book table of bookstore.db with another tool, which
\* sqlite lets happen only while the program holds no uncommitted write
NewPrices == {650}

ChangePrice ==
    /\ pc = "menu"
    /\ conn = Committed
    /\ \E bid \in {"B001"}, bprice \in NewPrices :
          /\ book[bid].bprice # bprice
          /\ book' = [book EXCEPT ![bid].bprice = bprice]
          /\ conn' = [conn EXCEPT !.book[bid].bprice = bprice]
    /\ last' = Outcome("price_change", <<>>, TRUE, MsgNone, 0, 0)
    /\ UNCHANGED <<sale, seq, pc>>

NextCatalog ==
    \/ AddSale
    \/ ShowSales
    \/ UpdateSaleChoice
    \/ DeleteSaleChoice
    \/ InvalidChoice
    \/ ChangePrice

SpecCatalog == Init /\ [][NextCatalog]_vars

----------------------------------------------------------------------------
(* Properties                                                              *)
(*                                                                         *)
(* A step is a step of operation op when last'.op = op: every action sets  *)
(* last.op to its own name. The unprimed variables are the state before    *)
(* the operation, the primed ones the state after it.                      *)

RowOf(S, sid) == CHOOSE r \in S : r.sid = sid

Sids(S) == {r.sid : r \in S}

\* the persisted relations the program can change
StoreUnchanged == UNCHANGED <<book, sale, seq>>

\* C1: in every reachable state, also after operations that fail or are
\* rolled back, the stock of every book is an integer >= 0, in the committed
\* data and in what the shared connection sees.
C1_StockNonNegative ==
    \A b \in DOMAIN book :
        /\ book[b].bstock \in Nat
        /\ conn.book[b].bstock \in Nat

\* a create of the whole stock has been committed: the stock is exactly 0
C1_Witness ==
    /\ last.op = "add_sale"
    /\ last.ok
    /\ book["B003"].bstock = 0

\* C2 (as claimed): a create that succeeds had inputs passing every
\* validation, and what it commits is exactly one new sale row with the given
\* date, member, book, quantity and discount and total = price*quantity -
\* discount, with the stock of that book lowered by quantity: every other
\* committed sale row and every other stock is as before. A create that does
\* not succeed commits nothing, so no committed state has the row without
\* the decrement or the decrement without the row.
C2_CommittedCreateExact ==
    [][last'.op = "add_sale" =>
        IF ~last'.ok THEN StoreUnchanged
        ELSE
        LET in  == last'.inputs
            new == sale' \ sale
        IN  /\ Len(in) = 5
            /\ Len(in[1]) = 10 /\ count(in[1], "-") = 2
            /\ in[2] \in DOMAIN member
            /\ in[3] \in DOMAIN book
            /\ int(in[4]).ok /\ int(in[4]).val > 0
            /\ int(in[5]).ok /\ int(in[5]).val >= 0
            /\ int(in[4]).val <= book[in[3]].bstock
            /\ sale \subseteq sale'
            /\ Cardinality(new) = 1
            /\ \A r \in new :
                 /\ r.sid \notin Sids(sale)
                 /\ r.sdate = in[1]
                 /\ r.mid = in[2]
                 /\ r.bid = in[3]
                 /\ r.sqty = int(in[4]).val
                 /\ r.sdiscount = int(in[5]).val
                 /\ r.stotal = book[in[3]].bprice * int(in[4]).val
                                 - int(in[5]).val
                 /\ last'.val = r.stotal
            /\ book' = [book EXCEPT ![in[3]].bstock = @ - int(in[4]).val]
    ]_vars

\* C2 as the connection sees it: against the data the shared connection
\* saw before the create (its own pending changes included), a successful
\* create adds exactly the one row and lowers exactly the one stock.
C2_OnConnection ==
    [][last'.op = "add_sale" /\ last'.ok =>
        LET in == last'.inputs
        IN  /\ conn.sale \subseteq sale'
            /\ Cardinality(sale' \ conn.sale) = 1
            /\ \A r \in sale' \ conn.sale :
                 r.stotal = conn.book[in[3]].bprice * r.sqty - r.sdiscount
            /\ book' = [conn.book EXCEPT ![in[3]].bstock = @ - int(in[4]).val]
    ]_vars

\* C3: every sale row, committed or seen by the connection, has
\* total = price of its book * quantity - discount, quantity > 0 and
\* discount >= 0 (no price is changed from outside in Spec).
C3_TotalsMatch ==
    \A r \in sale \cup conn.sale :
        /\ r.stotal = book[r.bid].bprice * r.sqty - r.sdiscount
        /\ r.sqty > 0
        /\ r.sdiscount >= 0

\* an updated seed row and a created row with a negative total are in the
\* ledger
C3_Witness ==
    /\ \E r \in sale : r.sid <= 4 /\ r.sdiscount = 70
    /\ \E r \in sale : r.sid > 4 /\ r.stotal < 0

\* C4: a create that reaches the stock check (inputs well-shaped, member and
\* book found) with quantity greater than the current stock of the book
\* fails, answers with the stock-insufficient message carrying the current
\* stock, and leaves stock and ledger as they were. (When a lookup raises,
\* no book was resolved: the answer is the system error, nothing changes.)
C4_OverStockRejected ==
    [][(/\ last'.op = "add_sale"
        /\ Len(last'.inputs) = 5
        /\ Len(last'.inputs[1]) = 10 /\ count(last'.inputs[1], "-") = 2
        /\ int(last'.inputs[4]).ok /\ int(last'.inputs[4]).val > 0
        /\ int(last'.inputs[5]).ok /\ int(last'.inputs[5]).val >= 0
        /\ last'.inputs[2] \in DOMAIN member
        /\ last'.inputs[3] \in DOMAIN book
        /\ int(last'.inputs[4]).val > book[last'.inputs[3]].bstock)
       => /\ ~last'.ok
          /\ UNCHANGED <<book, sale, seq, conn>>
          /\ \/ /\ last'.msg = MsgStockInsufficient
                /\ last'.val = book[last'.inputs[3]].bstock
             \/ /\ last'.msg = MsgSystemError
                /\ last'.fault = "select"
    ]_vars

\* a create of 20 was refused once an earlier create had lowered the stock
\* to 0, and the message carried that stock
C4_Witness ==
    /\ last.op = "add_sale"
    /\ last.msg = MsgStockInsufficient
    /\ last.inputs[4] = <<"2", "0">>
    /\ last.val = 0
    /\ book["B003"].bstock = 0

\* C5: a create with a member id or a book id that does not exist fails, and
\* nothing was written: the committed data and the connection's pending
\* changes are what they were.
C5_UnknownIdsRejected ==
    [][(/\ last'.op = "add_sale"
        /\ Len(last'.inputs) >= 4
        /\ \/ last'.inputs[2] \notin DOMAIN member
           \/ last'.inputs[3] \notin DOMAIN book)
       => /\ ~last'.ok
          /\ UNCHANGED <<book, sale, seq, conn>>
    ]_vars

\* a create with well-shaped inputs and an unknown member was refused for
\* the member
C5_Witness ==
    /\ last.op = "add_sale"
    /\ Len(last.inputs) = 5
    /\ last.inputs[2] \notin DOMAIN member
    /\ last.inputs[3] \in DOMAIN book
    /\ last.msg = MsgMemberMissing

ValidationMsgs ==
    {MsgDateFormat, MsgQtyNotInt, MsgQtyNotPositive, MsgDiscNotInt,
     MsgDiscNegative, MsgMemberMissing, MsgBookMissing, MsgStockInsufficient}

\* every check has messages of its own, and none is the message of success
MsgsDistinct ==
    /\ Cardinality(ValidationMsgs) = 8
    /\ MsgAdded \notin ValidationMsgs

\* the message of the first failing check when the checks are made in the
\* order date, member, book, quantity, discount, stock; MsgNone when none
\* fails. in holds the inputs the operation read.
FirstFailureClaimed(in, db) ==
    LET q == int(in[4])
        d == int(in[5])
    IN  IF Len(in[1]) # 10 \/ count(in[1], "-") # 2 THEN MsgDateFormat
        ELSE IF in[2] \notin DOMAIN member THEN MsgMemberMissing
        ELSE IF in[3] \notin DOMAIN db.book THEN MsgBookMissing
        ELSE IF ~q.ok THEN MsgQtyNotInt
        ELSE IF q.val <= 0 THEN MsgQtyNotPositive
        ELSE IF ~d.ok THEN MsgDiscNotInt
        ELSE IF d.val < 0 THEN MsgDiscNegative
        ELSE IF db.book[in[3]].bstock < q.val THEN MsgStockInsufficient
        ELSE MsgNone

\* the same in the order date, quantity, discount, member, book, stock
FirstFailureAmended(in, db) ==
    LET q == int(in[4])
        d == int(in[5])
    IN  IF Len(in[1]) # 10 \/ count(in[1], "-") # 2 THEN MsgDateFormat
        ELSE IF ~q.ok THEN MsgQtyNotInt
        ELSE IF q.val <= 0 THEN MsgQtyNotPositive
        ELSE IF ~d.ok THEN MsgDiscNotInt
        ELSE IF d.val < 0 THEN MsgDiscNegative
        ELSE IF in[2] \notin DOMAIN member THEN MsgMemberMissing
        ELSE IF in[3] \notin DOMAIN db.book THEN MsgBookMissing
        ELSE IF db.book[in[3]].bstock < q.val THEN MsgStockInsufficient
        ELSE MsgNone

\* C6 (as claimed): a create on which no statement raises answers with the
\* message of the first failing check in the order date, member, book,
\* quantity, discount, stock, and succeeds when no check fails.
C6_ClaimedOrder ==
    [][last'.op = "add_sale" /\ last'.fault = "none" =>
        LET first == FirstFailureClaimed(last'.inputs, conn)
        IN  last'.msg = IF first = MsgNone THEN MsgAdded ELSE first
    ]_vars

\* C6 (amended): the order is date, quantity, discount, member, book, stock;
\* the create stops at the first failing check, each check has messages of
\* its own, and the create succeeds when no check fails.
C6_AmendedOrder ==
    [][last'.op = "add_sale" /\ last'.fault = "none" =>
        LET first == FirstFailureAmended(last'.inputs, conn)
        IN  /\ last'.msg = IF first = MsgNone THEN MsgAdded ELSE first
            /\ last'.ok <=> (first = MsgNone)
            /\ (first # MsgNone) => UNCHANGED <<book, sale, seq, conn>>
            /\ MsgsDistinct
    ]_vars

\* an unknown member id together with a quantity that is no integer: the
\* answer is the quantity's
C6_Witness ==
    /\ last.op = "add_sale"
    /\ Len(last.inputs) = 4
    /\ last.inputs[2] \notin DOMAIN member
    /\ ~int(last.inputs[4]).ok
    /\ last.msg = MsgQtyNotInt

\* C7: when the insert, the stock update or the commit of a create raises,
\* the committed ledger and stocks are those from before the create, the
\* connection keeps no uncommitted change, and the answer is the rollback
\* message, which no validation gives.
C7_CreateRolledBack ==
    [][last'.op = "add_sale" /\ last'.fault \in AddFaults =>
        /\ StoreUnchanged
        /\ conn' = [book |-> book', sale |-> sale', seq |-> seq']
        /\ ~last'.ok
        /\ last'.msg = MsgRolledBack
        /\ MsgRolledBack \notin ValidationMsgs \cup {MsgSystemError}
    ]_vars

\* the stock update of a create raised after its insert had succeeded
C7_Witness ==
    /\ last.op = "add_sale"
    /\ last.fault = "update"
    /\ last.msg = MsgRolledBack
    /\ conn = Committed

\* C8: a successful update with new discount d leaves the selected sale with
\* discount d and total = (price of its book at the time of the update) *
\* (its stored quantity) - d, also when that price is no longer the one the
\* sale was created with.
C8_UpdateUsesCurrentPrice ==
    [][last'.op = "update_sale" /\ last'.ok =>
        LET sid == last'.sid
            d   == int(last'.inputs[2]).val
        IN  /\ sid \in Sids(sale)
            /\ sid \in Sids(sale')
            /\ RowOf(sale', sid).sdiscount = d
            /\ RowOf(sale', sid).stotal =
                 book[RowOf(sale, sid).bid].bprice * RowOf(sale, sid).sqty - d
            /\ last'.val = RowOf(sale', sid).stotal
    ]_vars

\* sale 1 (2 copies of B001, sold at 600) was updated to discount 70 after
\* the price of B001 had become 650: its total is 650*2 - 70
C8_Witness ==
    /\ last.op = "update_sale"
    /\ last.ok
    /\ last.sid = 1
    /\ book["B001"].bprice = 650
    /\ RowOf(sale, 1).stotal = 1230

\* C9 (as claimed): a successful delete removes exactly the selected row from
\* the committed ledger: the ledger afterwards is the ledger before without
\* that row.
C9_CommittedDeleteExact ==
    [][last'.op = "delete_sale" /\ last'.ok =>
        /\ last'.sid \in Sids(sale)
        /\ sale' = {r \in sale : r.sid # last'.sid}
    ]_vars

\* C9 as the connection sees it: against the ledger the shared connection
\* saw before the delete, exactly the selected row is gone.
C9_OnConnection ==
    [][last'.op = "delete_sale" /\ last'.ok =>
        /\ last'.sid \in Sids(conn.sale)
        /\ sale' = {r \in conn.sale : r.sid # last'.sid}
    ]_vars

\* the operation read an input of the wrong shape: a malformed date, a
\* quantity that is no integer or not positive, a discount that is no
\* integer or negative, a selection that is no number or outside
\* 1..length of the listing
ShapeError(op, in, listing) ==
    LET NotIntOrBelow(text, least) ==
            LET n == int(text) IN ~n.ok \/ n.val < least
    IN  \/ /\ op = "add_sale"
           /\ \/ Len(in[1]) # 10 \/ count(in[1], "-") # 2
              \/ Len(in) >= 4 /\ NotIntOrBelow(in[4], 1)
              \/ Len(in) = 5 /\ NotIntOrBelow(in[5], 0)
        \/ /\ op \in {"update_sale", "delete_sale"}
           /\ Len(in) >= 1
           /\ strip(in[1]) # <<>>
           /\ \/ NotIntOrBelow(in[1], 1)
              \/ int(in[1]).val > Len(listing)
        \/ /\ op = "update_sale"
           /\ Len(in) = 2
           /\ NotIntOrBelow(in[2], 0)

\* C10: an operation that read an input of the wrong shape reports an error,
\* leaves books, stocks and sales (committed and pending) unchanged, and the
\* menu loop goes on.
C10_ShapeErrorsChangeNothing ==
    [][ShapeError(last'.op, last'.inputs, Listing(conn)) =>
        /\ UNCHANGED <<book, sale, seq, conn>>
        /\ pc' = "menu"
        /\ ~last'.ok
        /\ last'.msg # MsgNone
    ]_vars

\* update_sale was given the selection 0 (index -1) and refused it
C10_Witness ==
    /\ last.op = "update_sale"
    /\ last.inputs = << <<"0">> >>
    /\ last.msg = MsgInvalidOption

\* rows lists every sale of ledger exactly once, in strictly ascending order
\* of sid, each with its own fields, the name of its member and the price of
\* its book, and lists nothing else
ListsLedger(rows, ledger, books) ==
    /\ \A i \in 1..(Len(rows) - 1) : rows[i].sid < rows[i + 1].sid
    /\ {rows[i].sid : i \in 1..Len(rows)} = Sids(ledger)
    /\ Len(rows) = Cardinality(ledger)
    /\ \A i \in 1..Len(rows) :
          LET r == RowOf(ledger, rows[i].sid)
          IN  /\ rows[i].sdate = r.sdate
              /\ rows[i].mname = member[r.mid]
              /\ rows[i].bprice = books[r.bid].bprice
              /\ rows[i].sqty = r.sqty
              /\ rows[i].sdiscount = r.sdiscount
              /\ rows[i].stotal = r.stotal

\* C11: in every reachable state the report of the persisted ledger lists
\* every sale exactly once, in strictly ascending order of sid, and nothing
\* else; a report that is shown is that report, and showing it changes
\* neither the persisted data nor what the shared connection holds.
C11_ReportListsLedger ==
    /\ [](ListsLedger(Report(Committed), sale, book))
    /\ [][last'.op = "show_sales" =>
            /\ UNCHANGED <<book, sale, seq, conn>>
            /\ last'.ok => /\ last'.rows = Report(Committed)
                           /\ ListsLedger(last'.rows, sale', book')
         ]_vars

\* the report was shown after sale 1 had been deleted and sale 5 created:
\* positions 1..4 hold the sales 2..5
C11_Witness ==
    /\ last.op = "show_sales"
    /\ last.ok
    /\ Len(last.rows) = 4
    /\ last.rows[1].sid = 2
    /\ last.rows[4].sid = 5

\* C12 (as claimed): the menu loop ends only by the operator's choice of 5
\* or a blank: every other step that starts at the menu ends at the menu.
C12_OnlyQuitEnds ==
    [][pc = "menu" /\ pc' # "menu" => last'.op = "quit"]_vars

\* C12 for the errors the program names: after a validation, referential,
\* business-rule or sqlite3 error in create, report, update or delete the
\* menu is shown again; the one way out of the loop besides the operator's
\* choice is the OverflowError of update_sale.
C12_ExceptOverflow ==
    [][pc = "menu" /\ pc' # "menu" =>
        \/ last'.op = "quit"
        \/ /\ last'.op = "update_sale"
           /\ last'.fault = "overflow"
           /\ ~int(last'.inputs[2]).int64
    ]_vars

\* after differs from before in nothing but the discount and the total of
\* the sale sid
OnlyDiscountAndTotal(before, after, sid) ==
    /\ after.book = before.book
    /\ Sids(after.sale) = Sids(before.sale)
    /\ Cardinality(after.sale) = Cardinality(before.sale)
    /\ \A r \in before.sale :
          LET n == RowOf(after.sale, r.sid)
          IN  IF r.sid = sid
              THEN n = [r EXCEPT !.sdiscount = n.sdiscount,
                                 !.stotal = n.stotal]
              ELSE n = r

\* C13 (as claimed): an update that succeeds changes only the discount and
\* the total of the selected sale in the persisted data: its sid, date,
\* member, book and quantity, every other sale, the number of sales and every
\* stock and price are as before; an update that does not succeed changes
\* nothing persisted.
C13_CommittedUpdateFrame ==
    [][last'.op = "update_sale" =>
        IF last'.ok
        THEN OnlyDiscountAndTotal(Committed,
                                  [book |-> book', sale |-> sale', seq |-> seq'],
                                  last'.sid)
        ELSE StoreUnchanged
    ]_vars

\* C13 as the connection sees it: against the data the shared connection saw
\* before the update, only the discount and total of the selected sale
\* differ.
C13_OnConnection ==
    [][last'.op = "update_sale" /\ last'.ok =>
        OnlyDiscountAndTotal(conn, conn', last'.sid)
    ]_vars

\* C14: no step makes the stock of a book larger, in the persisted data or
\* in what the connection sees, and a delete leaves every stock as it was:
\* the quantity of the deleted sale is not given back.
C14_StockNeverIncreases ==
    [][/\ \A b \in DOMAIN book :
            /\ book'[b].bstock <= book[b].bstock
            /\ conn'.book[b].bstock <= conn.book[b].bstock
       /\ last'.op = "delete_sale" => /\ book' = book
                                      /\ conn'.book = conn.book
    ]_vars

\* the sale created with the 20 copies of B003 has been deleted: the stock of
\* B003 is still 0
C14_Witness ==
    /\ last.op = "delete_sale"
    /\ last.ok
    /\ last.sid = 5
    /\ book["B003"].bstock = 0

\* the identifiers a listing shows
ListedSids(listing) == {listing[i].sid : i \in 1..Len(listing)}

\* C15 (as claimed): an update or delete that succeeds with selection k acted
\* on the sale with the k-th smallest sid of the persisted ledger, and the
\* listing it showed held every sale of that ledger.
C15_SelectsKthExisting ==
    [][last'.op \in {"update_sale", "delete_sale"} /\ last'.ok =>
        LET k == int(last'.inputs[1]).val
        IN  /\ ListedSids(Listing(conn)) = Sids(sale)
            /\ k \in 1..Cardinality(sale)
            /\ last'.sid = OrderBySid(sale)[k].sid
    ]_vars

\* C15 as the connection sees it: selection k acts on the k-th smallest sid
\* among the sales the shared connection sees, all of which are listed.
C15_OnConnection ==
    [][last'.op \in {"update_sale", "delete_sale"} /\ last'.ok =>
        LET k == int(last'.inputs[1]).val
        IN  /\ ListedSids(Listing(conn)) = Sids(conn.sale)
            /\ k \in 1..Cardinality(conn.sale)
            /\ last'.sid = OrderBySid(conn.sale)[k].sid
    ]_vars

\* C16: every sale row, persisted or seen by the connection, references a
\* member of the member table and a book of the book table, so the joins of
\* the report and of the listing drop no sale.
C16_ReferencesExist ==
    /\ \A r \in sale \cup conn.sale :
          /\ r.mid \in DOMAIN member
          /\ r.bid \in DOMAIN book
          /\ r.bid \in DOMAIN conn.book
    /\ Len(Report(Committed)) = Cardinality(sale)
    /\ Len(Listing(conn)) = Cardinality(conn.sale)

\* a sale created by add_sale is in the ledger beside the seed sales
C16_Witness ==
    /\ last.op = "add_sale"
    /\ \E r \in sale : /\ r.sid = last.sid
                        /\ r.sid > Len(SeedSale)
                        /\ r.mid = "M001"
                        /\ r.bid = "B003"
    /\ Cardinality(sale) = Len(SeedSale) + 1

\* C17 (as claimed): when a statement or the commit of an update or delete
\* raises, the persisted data are those from before the operation and the
\* shared connection holds no change of the failed operation: it sees what
\* it saw before, or the persisted data.
C17_FailedChangeLeavesNothing ==
    [][last'.op \in {"update_sale", "delete_sale"} /\ last'.fault # "none" =>
        /\ StoreUnchanged
        /\ conn' \in {conn, Committed}
    ]_vars

\* text is empty or blanks only
Blank(text) == \A i \in 1..Len(text) : text[i] = " "

\* C18: an update or delete answered with a blank selection, and one started
\* on an empty ledger whose listing is read without an error, change nothing
\* persisted or pending, say nothing (blank) or that there is no sale to
\* operate on (empty ledger, no selection read), and return to the menu.
C18_CancelAndEmptyChangeNothing ==
    [][(/\ last'.op \in {"update_sale", "delete_sale"}
        /\ last'.fault = "none"
        /\ \/ sale = {}
           \/ Len(last'.inputs) >= 1 /\ Blank(last'.inputs[1]))
       => /\ UNCHANGED <<book, sale, seq, conn>>
          /\ pc' = "menu"
          /\ IF sale = {}
             THEN /\ last'.inputs = <<>>
                  /\ last'.msg = IF last'.op = "update_sale"
                                 THEN MsgNoUpdatable ELSE MsgNoDeletable
             ELSE last'.msg = MsgNone
          /\ {MsgNone, MsgNoUpdatable, MsgNoDeletable} \cap
                {MsgInvalidOption, MsgInvalidNumber, MsgDiscNotInt,
                 MsgDiscNegative, MsgDbError, MsgTraceback} = {}
    ]_vars

\* delete_sale was started after the last sale had been deleted
C18_Witness ==
    /\ sale = {}
    /\ last.op = "delete_sale"
    /\ last.msg = MsgNoDeletable

\* update_sale was left with a selection of one blank
C18_BlankWitness ==
    /\ last.op = "update_sale"
    /\ last.inputs = << <<" ">> >>
    /\ last.msg = MsgNone

\* C19 (as claimed): starting the program again on its database leaves the
\* book and sale relations and the identifier sequence as they were (the
\* member relation never changes).
C19_RestartChangesNothing ==
    [][last'.op = "start" => StoreUnchanged]_vars

\* C19, what a restart does keep: stocks and prices are not reset and every
\* sale of the ledger stays as it is; the rows it adds are seed sales whose
\* identifier was missing, under new identifiers.
C19_RestartKeepsWhatExists ==
    [][last'.op = "start" =>
        /\ book' = book
        /\ sale \subseteq sale'
        /\ \A r \in sale' \ sale :
              \E i \in 1..Len(SeedSale) :
                 /\ i \notin Sids(sale)
                 /\ r.sid > seq
                 /\ r = [sid |-> r.sid, sdate |-> SeedSale[i].sdate,
                         mid |-> SeedSale[i].mid, bid |-> SeedSale[i].bid,
                         sqty |-> SeedSale[i].sqty,
                         sdiscount |-> SeedSale[i].sdiscount,
                         stotal |-> SeedSale[i].stotal]
    ]_vars

\* C20: the sales of the ledger, persisted or seen by the connection, have
\* distinct identifiers, none above the persisted sequence value, which
\* never goes down; every row that enters the persisted ledger has an
\* identifier above the sequence value from before, so above every
\* identifier a sale ever held, and a create that succeeds reports it.
C20_SidsUniqueIncreasing ==
    /\ [](/\ Cardinality(Sids(sale)) = Cardinality(sale)
          /\ Cardinality(Sids(conn.sale)) = Cardinality(conn.sale)
          /\ \A r \in sale \cup conn.sale : r.sid <= seq)
    /\ [][/\ seq' >= seq
           /\ \A r \in sale' : (r.sid \notin Sids(sale) => r.sid > seq)
           /\ (last'.op = "add_sale" /\ last'.ok) =>
                 (/\ last'.sid \in Sids(sale')
                  /\ last'.sid > seq)
        ]_vars

\* a sale was created after every seed sale had been deleted: it is alone in
\* the ledger and its identifier is 5, not one of 1..4 again
C20_Witness ==
    /\ last.op = "add_sale"
    /\ last.ok
    /\ last.sid = Len(SeedSale) + 1
    /\ Sids(sale) = {last.sid}

====
